---- MODULE Spec2Model ----
(***************************************************************************)
(* The AI suggestion pipeline of the smart-todo backend                    *)
(* (ai_integration/ai_module.py) and the task lifecycle hooks that call it *)
(* (tasks/views.py), as a state machine.                                   *)
(*                                                                         *)
(* Python values are records [t, n, s, dt]: t is the type tag, n the       *)
(* number (a float carries its value in tenths), s the characters of a str *)
(* (one-character strings) or the items of a list, dt the fields of a      *)
(* datetime <<Y, M, D, h, m, s, us>>.  A dict is a function from its keys  *)
(* to values.                                                              *)
(***************************************************************************)
EXTENDS Integers, Sequences, FiniteSets, TLC

----------------------------------------------------------------------------
(* Python values *)

Val(t, n, s, dt) == [t |-> t, n |-> n, s |-> s, dt |-> dt]
None == Val("null", 0, <<>>, <<>>)
PyInt(n) == Val("int", n, <<>>, <<>>)
PyFloat(tenths) == Val("float", tenths, <<>>, <<>>)
PyInf == Val("inf", 1, <<>>, <<>>)
PyNaN == Val("nan", 0, <<>>, <<>>)
PyStr(chars) == Val("str", 0, chars, <<>>)
PyList(items) == Val("list", 0, items, <<>>)
PyDatetime(dt) == Val("datetime", 0, <<>>, dt)

\* bool(v): Python truthiness
Truthy(v) ==
    CASE v.t = "null" -> FALSE
      [] v.t \in {"bool", "int", "float", "dict"} -> v.n # 0
      [] v.t \in {"str", "list"} -> Len(v.s) > 0
      [] OTHER -> TRUE

EmptyDict == [k \in {} |-> None]
Put(m, k, v) == [x \in (DOMAIN m) \cup {k} |-> IF x = k THEN v ELSE m[x]]
\* dict.get(k, default)
Get(m, k, default) == IF k \in DOMAIN m THEN m[k] ELSE default

----------------------------------------------------------------------------
(* Characters and numerals *)

Digits == {"0", "1", "2", "3", "4", "5", "6", "7", "8", "9"}

DigitVal(c) ==
    CASE c = "0" -> 0 [] c = "1" -> 1 [] c = "2" -> 2 [] c = "3" -> 3
      [] c = "4" -> 4 [] c = "5" -> 5 [] c = "6" -> 6 [] c = "7" -> 7
      [] c = "8" -> 8 [] c = "9" -> 9

RECURSIVE DigitsValue(_, _)
\* the decimal value of the digits of s (underscores skipped), after acc
DigitsValue(s, acc) ==
    IF s = <<>> THEN acc
    ELSE IF Head(s) = "_" THEN DigitsValue(Tail(s), acc)
    ELSE DigitsValue(Tail(s), 10 * acc + DigitVal(Head(s)))

RECURSIVE LStrip(_)
LStrip(s) == IF s # <<>> /\ Head(s) = " " THEN LStrip(Tail(s)) ELSE s

RECURSIVE RStrip(_)
RStrip(s) ==
    IF s # <<>> /\ s[Len(s)] = " " THEN RStrip(SubSeq(s, 1, Len(s) - 1)) ELSE s

\* the literal of int(str): digits, single underscores only between digits
IsIntLiteral(b) ==
    /\ b # <<>>
    /\ b[1] \in Digits
    /\ b[Len(b)] \in Digits
    /\ \A i \in 1..Len(b) : b[i] \in Digits \cup {"_"}
    /\ \A i \in 1..(Len(b) - 1) : ~(b[i] = "_" /\ b[i + 1] = "_")

\* int(v) of ai_module.py:169: the number, or the exception int() raises
IntCoerce(v) ==
    CASE v.t \in {"int", "bool"} -> [exc |-> "none", n |-> v.n]
      [] v.t = "float" ->
            [exc |-> "none",
             n |-> IF v.n >= 0 THEN v.n \div 10 ELSE -((-v.n) \div 10)]
      [] v.t = "inf" -> [exc |-> "OverflowError", n |-> 0]
      [] v.t = "nan" -> [exc |-> "ValueError", n |-> 0]
      [] v.t = "str" ->
            LET w == RStrip(LStrip(v.s))
                signed == w # <<>> /\ w[1] \in {"+", "-"}
                body == IF signed THEN Tail(w) ELSE w
            IN  IF IsIntLiteral(body)
                THEN [exc |-> "none",
                      n |-> IF signed /\ w[1] = "-"
                            THEN -DigitsValue(body, 0)
                            ELSE DigitsValue(body, 0)]
                ELSE [exc |-> "ValueError", n |-> 0]
      [] OTHER -> [exc |-> "TypeError", n |-> 0]

Min(a, b) == IF a < b THEN a ELSE b
Max(a, b) == IF a > b THEN a ELSE b
\* mutant: the lower end of the range taken as 0
ClampFromZero(x) == Max(0, Min(100, x))

\* max(1, min(100, x)) of ai_module.py:170
Clamp(x) == Max(1, Min(100, x))

----------------------------------------------------------------------------
(* datetime: strptime with '%Y-%m-%d %H:%M:%S', timedelta, replace *)

IsLeap(y) == (y % 4 = 0 /\ y % 100 # 0) \/ y % 400 = 0

DaysInMonth(y, m) ==
    CASE m = 2 -> IF IsLeap(y) THEN 29 ELSE 28
      [] m \in {4, 6, 9, 11} -> 30
      [] OTHER -> 31

RECURSIVE RunEnd(_, _)
\* the index after the run of digits of s that starts at p
RunEnd(s, p) == IF p <= Len(s) /\ s[p] \in Digits THEN RunEnd(s, p + 1) ELSE p

RECURSIVE SpaceEnd(_, _)
SpaceEnd(s, p) == IF p <= Len(s) /\ s[p] = " " THEN SpaceEnd(s, p + 1) ELSE p

\* the digit field of s at p: its length, value and the index after it
Field(s, p) ==
    LET e == RunEnd(s, p)
    IN  [len |-> e - p, val |-> DigitsValue(SubSeq(s, p, e - 1), 0), next |-> e]

Lit(s, p, c) == p <= Len(s) /\ s[p] = c

NoDatetime == <<>>

\* datetime.strptime(s, '%Y-%m-%d %H:%M:%S'): [ok, dt]; ok = FALSE is ValueError.
\* %Y is four digits; %m %d %H %M %S are one or two digits in range; %d may
\* be a space and one digit; the blank of the format is one or more blanks;
\* nothing may follow %S; datetime() then refuses year 0, second 60 and 61 and
\* a day the month does not have.
Strptime(s) ==
    LET bad == [ok |-> FALSE, dt |-> NoDatetime]
        Y == Field(s, 1)
    IN  IF ~(Y.len = 4 /\ Lit(s, Y.next, "-")) THEN bad ELSE
        LET Mo == Field(s, Y.next + 1)
        IN  IF ~(Mo.len \in {1, 2} /\ Mo.val \in 1..12 /\ Lit(s, Mo.next, "-"))
            THEN bad ELSE
        LET p == Mo.next + 1
            D == IF Lit(s, p, " ") /\ p + 1 <= Len(s) /\ s[p + 1] \in Digits \ {"0"}
                 THEN [len |-> 1, val |-> DigitVal(s[p + 1]), next |-> p + 2]
                 ELSE Field(s, p)
        IN  IF ~(D.len \in {1, 2} /\ D.val \in 1..31 /\ Lit(s, D.next, " "))
            THEN bad ELSE
        LET H == Field(s, SpaceEnd(s, D.next))
        IN  IF ~(H.len \in {1, 2} /\ H.val \in 0..23 /\ Lit(s, H.next, ":"))
            THEN bad ELSE
        LET Mi == Field(s, H.next + 1)
        IN  IF ~(Mi.len \in {1, 2} /\ Mi.val \in 0..59 /\ Lit(s, Mi.next, ":"))
            THEN bad ELSE
        LET S == Field(s, Mi.next + 1)
        IN  IF ~(S.len \in {1, 2} /\ S.val \in 0..61 /\ S.next = Len(s) + 1)
            THEN bad ELSE
            IF Y.val < 1 \/ S.val > 59 \/ D.val > DaysInMonth(Y.val, Mo.val)
            THEN bad
            ELSE [ok |-> TRUE,
                  dt |-> <<Y.val, Mo.val, D.val, H.val, Mi.val, S.val, 0>>]

RECURSIVE AddDays(_, _)
\* dt + timedelta(days=k)
AddDays(dt, k) ==
    IF k = 0 THEN dt
    ELSE LET next == IF dt[3] < DaysInMonth(dt[1], dt[2])
                     THEN [dt EXCEPT ![3] = dt[3] + 1]
                     ELSE IF dt[2] < 12
                     THEN [dt EXCEPT ![2] = dt[2] + 1, ![3] = 1]
                     ELSE [dt EXCEPT ![1] = dt[1] + 1, ![2] = 1, ![3] = 1]
         IN  AddDays(next, k - 1)

\* dt.replace(hour=h, minute=0, second=0, microsecond=0)
ReplaceTime(dt, h) == [dt EXCEPT ![4] = h, ![5] = 0, ![6] = 0, ![7] = 0]

----------------------------------------------------------------------------
(* Texts of the source *)

NoContextText == <<"N","o"," ","d","a","i","l","y"," ","c","o","n","t","e","x","t"," ","a","v","a","i","l","a","b","l","e",".">>
SourcePrefix == <<"S","o","u","r","c","e",":"," ">>
Uncategorized == <<"U","n","c","a","t","e","g","o","r","i","z","e","d">>
JsonDecodingFailed == <<"J","S","O","N"," ","d","e","c","o","d","i","n","g"," ","f","a","i","l","e","d">>
Ellipsis == <<".",".",".">>

\* the characters of a dict key, for `key in <str>`
KeyChars(k) ==
    CASE k = "priority_score" -> <<"p","r","i","o","r","i","t","y","_","s","c","o","r","e">>
      [] k = "deadline" -> <<"d","e","a","d","l","i","n","e">>

\* combined_context[:200] of ai_module.py:131
SummaryChars == 200
\* the default of ai_module.py:172 and :197
DefaultPriority == 50
\* timedelta(days=3) and replace(hour=17) of ai_module.py:187-189
DefaultDays == 3
DefaultHour == 17

----------------------------------------------------------------------------
(* The value json.loads returns: [t, n, s, m]; m is the dict, s the items *)
(* of a list or the characters of a str.                                   *)

Resp(t, n, s, m) == [t |-> t, n |-> n, s |-> s, m |-> m]
DictResp(m) == Resp("dict", 0, <<>>, m)
ListResp(items) == Resp("list", 0, items, EmptyDict)
StrResp(chars) == Resp("str", 0, chars, EmptyDict)
IntResp(n) == Resp("int", n, <<>>, EmptyDict)
BoolResp(b) == Resp("bool", IF b THEN 1 ELSE 0, <<>>, EmptyDict)
NullResp == Resp("null", 0, <<>>, EmptyDict)

\* bool(r)
RespTruthy(r) ==
    CASE r.t = "dict" -> DOMAIN r.m # {}
      [] r.t \in {"list", "str"} -> Len(r.s) > 0
      [] r.t \in {"int", "bool"} -> r.n # 0
      [] OTHER -> FALSE

IsSubSeq(needle, hay) ==
    \E i \in 0..(Len(hay) - Len(needle)) :
        \A j \in 1..Len(needle) : hay[i + j] = needle[j]

\* `k in r`: "yes", "no", or "TypeError" when r is not iterable
KeyIn(k, r) ==
    CASE r.t = "dict" -> IF k \in DOMAIN r.m THEN "yes" ELSE "no"
      [] r.t = "list" -> IF \E i \in 1..Len(r.s) : r.s[i] = k THEN "yes" ELSE "no"
      [] r.t = "str" -> IF IsSubSeq(KeyChars(k), r.s) THEN "yes" ELSE "no"
      [] OTHER -> "TypeError"

----------------------------------------------------------------------------
(* AITaskManagement: the adapter *)

ApiChoices == {"openai", "claude", "lm_studio"}

\* _initialize_llm_client: the client object, None for 'claude'
InitializeLlmClient(choice) ==
    CASE choice = "openai" -> "OpenAI"
      [] choice = "claude" -> "None"
      [] choice = "lm_studio" -> "OpenAI"

\* What the backend does with one request: the call raises, or the content of
\* the reply does not decode as JSON, or it decodes to the value resp.
Backend(kind, msg, resp) == [kind |-> kind, msg |-> msg, resp |-> resp]

\* mutant: an exception of the backend answered with None
CallLlmNoneOnError(choice, llmClient, b) ==
    IF llmClient = "None" THEN DictResp(EmptyDict)
    ELSE IF choice \in {"openai", "lm_studio"}
    THEN CASE b.kind = "raise" -> NullResp
           [] b.kind = "badjson" ->
                DictResp([k \in {"error", "details"} |->
                            IF k = "error" THEN PyStr(JsonDecodingFailed)
                            ELSE PyStr(b.msg)])
           [] b.kind = "json" -> b.resp
    ELSE DictResp(EmptyDict)

\* mutant: a missing client answered with an error dict
CallLlmErrorWithoutClient(choice, llmClient, b) ==
    IF llmClient = "None"
    THEN DictResp([k \in {"error"} |-> PyStr(<<"n", "o", " ", "c", "l", "i", "e", "n", "t">>)])
    ELSE IF choice \in {"openai", "lm_studio"}
    THEN CASE b.kind = "raise" -> DictResp([k \in {"error"} |-> PyStr(b.msg)])
           [] b.kind = "badjson" ->
                DictResp([k \in {"error", "details"} |->
                            IF k = "error" THEN PyStr(JsonDecodingFailed)
                            ELSE PyStr(b.msg)])
           [] b.kind = "json" -> b.resp
    ELSE DictResp(EmptyDict)

\* _call_llm
CallLlm(choice, llmClient, b) ==
    IF llmClient = "None" THEN DictResp(EmptyDict)
    ELSE IF choice \in {"openai", "lm_studio"}
    THEN CASE b.kind = "raise" -> DictResp([k \in {"error"} |-> PyStr(b.msg)])
           [] b.kind = "badjson" ->
                DictResp([k \in {"error", "details"} |->
                            IF k = "error" THEN PyStr(JsonDecodingFailed)
                            ELSE PyStr(b.msg)])
           [] b.kind = "json" -> b.resp
    ELSE DictResp(EmptyDict)

----------------------------------------------------------------------------
(* get_task_suggestions: the context summary *)

RECURSIVE Join(_)
\* "\n".join(lines)
Join(lines) ==
    IF lines = <<>> THEN <<>>
    ELSE IF Len(lines) = 1 THEN lines[1]
    ELSE lines[1] \o <<"\n">> \o Join(Tail(lines))

\* f"Source: {c['source_type']}: {c['content']}"
ContextLine(c) == SourcePrefix \o c.source_type \o <<":", " ">> \o c.content

CombinedContext(data) == Join([i \in 1..Len(data) |-> ContextLine(data[i])])

Take(s, n) == SubSeq(s, 1, Min(n, Len(s)))

\* combined_context[:200] + "..."
SummaryFallback(data) == PyStr(Take(CombinedContext(data), SummaryChars) \o Ellipsis)

\* summary_response.get('summary', fallback): [exc, v]
SummaryText(data, r) ==
    IF r.t # "dict" THEN [exc |-> "AttributeError", v |-> None]
    ELSE [exc |-> "none", v |-> Get(r.m, "summary", SummaryFallback(data))]

----------------------------------------------------------------------------
(* get_task_suggestions: post-processing of the suggest reply.  Each step  *)
(* takes and returns [exc, sug]: the exception raised so far ("none") and  *)
(* the suggestions value as mutated so far.                                *)

Step(exc, sug) == [exc |-> exc, sug |-> sug]
SetKey(sug, k, v) == [sug EXCEPT !.m = Put(sug.m, k, v)]

\* ai_module.py:167-172
PriorityStep(st) ==
    LET sug == st.sug
        has == IF RespTruthy(sug) THEN KeyIn("priority_score", sug) ELSE "no"
    IN  IF st.exc # "none" THEN st
        ELSE IF has = "TypeError" THEN Step("TypeError", sug)
        ELSE IF has = "no" THEN st
        ELSE IF sug.t # "dict" THEN Step("TypeError", sug)
        ELSE LET c == IntCoerce(sug.m["priority_score"])
             IN  CASE c.exc = "none" ->
                        Step("none", SetKey(sug, "priority_score", PyInt(Clamp(c.n))))
                   [] c.exc \in {"ValueError", "TypeError"} ->
                        Step("none", SetKey(sug, "priority_score", PyInt(DefaultPriority)))
                   [] OTHER -> Step(c.exc, sug)

\* ai_module.py:175-183
DeadlineStep(st) ==
    LET sug == st.sug
        has == IF RespTruthy(sug) THEN KeyIn("deadline", sug) ELSE "no"
    IN  IF st.exc # "none" THEN st
        ELSE IF has = "TypeError" THEN Step("TypeError", sug)
        ELSE IF sug.t # "dict" THEN Step("TypeError", sug)
        ELSE IF has = "yes" /\ Truthy(sug.m["deadline"])
        THEN LET d == sug.m["deadline"]
             IN  IF d.t # "str" THEN Step("TypeError", sug)
                 ELSE LET p == Strptime(d.s)
                      IN  IF p.ok
                          THEN Step("none", SetKey(sug, "deadline", PyDatetime(p.dt)))
                          ELSE Step("none", SetKey(sug, "deadline", None))
        ELSE Step("none", SetKey(sug, "deadline", None))

\* mutant: the time of day of now is kept
DefaultDeadlineKeepsTime(clock) == PyDatetime(AddDays(clock, DefaultDays))

\* ai_module.py:186-189
DefaultDeadline(clock) == PyDatetime(ReplaceTime(AddDays(clock, DefaultDays), DefaultHour))

DefaultDeadlineStep(st, clock) ==
    IF st.exc # "none" THEN st
    ELSE IF RespTruthy(st.sug) /\ st.sug.m["deadline"].t = "null"
    THEN Step("none", SetKey(st.sug, "deadline", DefaultDeadline(clock)))
    ELSE st

\* mutant: only a str is replaced
RecommendationsStepStrOnly(st) ==
    IF st.exc # "none" THEN st
    ELSE IF /\ RespTruthy(st.sug)
            /\ "recommendations" \in DOMAIN st.sug.m
            /\ st.sug.m["recommendations"].t = "str"
    THEN Step("none", SetKey(st.sug, "recommendations", PyList(<<>>)))
    ELSE st

\* ai_module.py:192-193
RecommendationsStep(st) ==
    IF st.exc # "none" THEN st
    ELSE IF /\ RespTruthy(st.sug)
            /\ "recommendations" \in DOMAIN st.sug.m
            /\ st.sug.m["recommendations"].t # "list"
    THEN Step("none", SetKey(st.sug, "recommendations", PyList(<<>>)))
    ELSE st

NoRecord == EmptyDict

\* ai_module.py:118-120
TaskTitle(details) == Get(details, "title", PyStr(<<>>))
TaskDescription(details) == Get(details, "description", PyStr(<<>>))
TaskCategory(details) == Get(details, "category", PyStr(Uncategorized))

\* ai_module.py:196-203: rec holds the five fields, raw is "ai_raw_response"
ReturnRecord(st, details) ==
    IF st.exc # "none" THEN [exc |-> st.exc, rec |-> NoRecord, raw |-> EmptyDict]
    ELSE [exc |-> "none",
          raw |-> st.sug.m,
          rec |-> [k \in {"priority_score", "deadline", "suggested_category",
                          "enhanced_description", "recommendations"} |->
                     CASE k = "priority_score" ->
                            Get(st.sug.m, k, PyInt(DefaultPriority))
                       [] k = "deadline" -> Get(st.sug.m, k, None)
                       [] k = "suggested_category" ->
                            Get(st.sug.m, k, TaskCategory(details))
                       [] k = "enhanced_description" ->
                            Get(st.sug.m, k, TaskDescription(details))
                       [] k = "recommendations" -> Get(st.sug.m, k, PyList(<<>>))]]

\* ai_module.py:165-203: [exc, rec, raw]
PostProcess(sug, details, clock) ==
    ReturnRecord(
        RecommendationsStep(
            DefaultDeadlineStep(DeadlineStep(PriorityStep(Step("none", sug))), clock)),
        details)

----------------------------------------------------------------------------
(* Inputs *)

\* the length of the long context entry; the combined context passes
\* SummaryChars within its second line
LongLen == 150
Rep(c, n) == [i \in 1..n |-> c]

TxtEmail == <<"e","m","a","i","l">>
TxtNote == <<"n","o","t","e">>
TxtRent == <<"R","e","n","t"," ","d","u","e">>
TxtTitle == <<"P","a","y">>
TxtDesc == <<"B","a","n","k">>
TxtCat == <<"H","o","m","e">>
TxtWork == <<"W","o","r","k">>
TxtBetter == <<"C","a","l","l">>
TxtBusy == <<"B","u","s","y">>
TxtBoom == <<"b","o","o","m">>
TxtHigh == <<"h","i","g","h">>
TxtDoItNow == <<"d","o"," ","i","t"," ","n","o","w">>

Entry(st, content) == [source_type |-> st, content |-> content]

\* daily_context_data: none, one entry, two long entries
ContextSet ==
    { <<>>,
      <<Entry(TxtEmail, TxtRent)>>,
      <<Entry(TxtNote, Rep("a", LongLen)), Entry(TxtEmail, Rep("b", LongLen \div 2))>> }

\* task_details: all keys, or none (the .get defaults apply), or a task
\* without description and category
TaskDetailsSet ==
    { [k \in {"title", "description", "category"} |->
          CASE k = "title" -> PyStr(TxtTitle)
            [] k = "description" -> PyStr(TxtDesc)
            [] k = "category" -> PyStr(TxtCat)],
      [k \in {"title", "description", "category"} |->
          IF k = "title" THEN PyStr(TxtTitle) ELSE None],
      EmptyDict }

\* datetime.now(): mid-month, the end of a year, the end of a leap February
Clocks ==
    { <<2025, 3, 7, 14, 23, 45, 123456>>,
      <<2025, 12, 30, 23, 59, 59, 999999>>,
      <<2024, 2, 27, 8, 0, 0, 0>> }

Absent == Val("absent", 0, <<>>, <<>>)

\* the dict of the keys of f whose value is not Absent
MkDict(f) == [k \in {x \in DOMAIN f : f[x] # Absent} |-> f[k]]

DlWellFormed == <<"2","0","2","5","-","0","3","-","1","0"," ","0","9",":","0","0",":","0","0">>
DlUnpadded == <<"2","0","2","5","-","3","-","1"," ","9",":","0",":","0">>
DlNoSuchDay == <<"2","0","2","5","-","0","2","-","3","0"," ","0","9",":","0","0",":","0","0">>
DlIso == <<"2","0","2","5","-","0","3","-","1","0","T","0","9",":","0","0",":","0","0">>

PriorityValues ==
    { Absent, PyInt(42), PyInt(0), PyInt(-5), PyInt(101), PyFloat(37),
      PyStr(<<"4", "2">>), PyStr(<<"3", ".", "7">>), PyStr(TxtHigh), None,
      PyList(<<>>), PyInf, PyNaN }

DeadlineValues ==
    { Absent, None, PyStr(DlWellFormed), PyStr(DlUnpadded), PyStr(DlNoSuchDay),
      PyStr(DlIso), PyStr(<<>>), PyInt(5), PyInt(0) }

RecommendationsValues ==
    { Absent, None, PyStr(TxtDoItNow), PyList(<<"call", "pay">>) }

\* suggested_category and enhanced_description
TextPairs ==
    { <<Absent, Absent>>, <<PyStr(TxtWork), PyStr(TxtBetter)>>, <<None, Absent>> }

SuggestDicts ==
    { MkDict([k \in {"priority_score", "deadline", "recommendations",
                     "suggested_category", "enhanced_description"} |->
                CASE k = "priority_score" -> p
                  [] k = "deadline" -> d
                  [] k = "recommendations" -> r
                  [] k = "suggested_category" -> t[1]
                  [] k = "enhanced_description" -> t[2]]) :
        p \in PriorityValues, d \in DeadlineValues,
        r \in RecommendationsValues, t \in TextPairs }

\* decoded JSON values that are not objects
NonObjects ==
    { ListResp(<<>>), ListResp(<<"priority_score">>), StrResp(TxtHigh),
      IntResp(5), NullResp, BoolResp(TRUE) }

Failures == { Backend("raise", TxtBoom, NullResp), Backend("badjson", TxtHigh, NullResp) }

\* what the backend may do with the suggest request
SuggestBackends ==
    Failures \cup { Backend("json", <<>>, DictResp(m)) : m \in SuggestDicts }
             \cup { Backend("json", <<>>, r) : r \in NonObjects }

SummaryDicts ==
    { EmptyDict,
      [k \in {"summary"} |-> PyStr(TxtBusy)],
      [k \in {"summary"} |-> None],
      [k \in {"summary"} |-> PyInt(7)],
      [k \in {"text"} |-> PyStr(TxtBusy)] }

\* what the backend may do with the summarize request
SummarizeBackends ==
    Failures \cup { Backend("json", <<>>, DictResp(m)) : m \in SummaryDicts }
             \cup { Backend("json", <<>>, r) : r \in {ListResp(<<>>), NullResp} }

----------------------------------------------------------------------------
(* State *)

VARIABLES
    api_choice,            \* self.api_choice
    client,                \* self.client
    task_details,          \* get_task_suggestions: its arguments
    daily_context_data,
    pc,                    \* where get_task_suggestions is
    summary_response,      \* the reply to the summarize call
    context_summary_text,  \* the summary the suggestion prompt embeds
    suggestions,           \* the reply to the suggest call
    now,                   \* datetime.now() as read at line 187
    result,                \* [exc, rec]: the exception raised or the record returned
    llm_calls,             \* the calls of _call_llm so far
    db_task,               \* the Task row of the store
    db_context,            \* the ContextEntry rows of the user
    req,                   \* the requests in flight: position and locals
    last_save              \* the request whose task.save() of views.py:64, 105 ran last

vars == <<api_choice, client, task_details, daily_context_data, pc,
          summary_response, context_summary_text, suggestions, now, result,
          llm_calls, db_task, db_context, req, last_save>>

pipelineVars == <<task_details, daily_context_data, pc, summary_response,
                  context_summary_text, suggestions, now, result, llm_calls>>
viewVars == <<db_task, db_context, req, last_save>>

NoResult == [exc |-> "none", rec |-> NoRecord, raw |-> EmptyDict]

\* one call of _call_llm: what it was for, its model and token budget, the
\* context text its prompt embeds, what the backend did ("not called" when
\* there is no client) and the value _call_llm returned
LlmCall(purpose, model, max_tokens, context, b, reply) ==
    [purpose |-> purpose, model |-> model, max_tokens |-> max_tokens,
     context |-> context,
     backend |-> IF client = "None" THEN "not called" ELSE b.kind,
     reply |-> reply]

\* mutant: the summary asked for whatever the entries
HasContextAlways(data) == TRUE

\* `if daily_context_data:` of ai_module.py:123
HasContext(data) == data # <<>>

\* get_task_suggestions as one call: b1 and b2 are what the backend does
\* with the summarize and the suggest request, clock is datetime.now()
GetTaskSuggestions(choice, llmClient, details, data, b1, b2, clock) ==
    LET t == IF HasContext(data)
             THEN SummaryText(data, CallLlm(choice, llmClient, b1))
             ELSE [exc |-> "none", v |-> PyStr(NoContextText)]
    IN  IF t.exc # "none"
        THEN [exc |-> t.exc, rec |-> NoRecord, raw |-> EmptyDict]
        ELSE PostProcess(CallLlm(choice, llmClient, b2), details, clock)

----------------------------------------------------------------------------
(* The store and the requests of tasks/views.py *)

\* the re-evaluation requests that may run at once
NumReevaluations == 2
CreateId == 0
Reevals == 1..NumReevaluations
\* the update request (PUT or PATCH of the task) that runs beside them
UpdateId == NumReevaluations + 1
RequestIds == {CreateId} \cup Reevals \cup {UpdateId}

\* ai_suggestions = NULL
NullPayload == NoResult

\* a Task row, or a Task instance in memory (models.py:25-37)
TaskRow(user, title, description, category, priority_score, deadline, status, payload) ==
    [exists |-> TRUE, user |-> user, title |-> title, description |-> description,
     category |-> category, priority_score |-> priority_score,
     deadline |-> deadline, status |-> status, ai_suggestions |-> payload]

NoRow ==
    [exists |-> FALSE, user |-> "", title |-> None, description |-> None,
     category |-> None, priority_score |-> PyInt(0), deadline |-> None,
     status |-> "", ai_suggestions |-> NullPayload]

\* Task(...) with the defaults of models.py:32-35
NewTask(user, title, description, category) ==
    TaskRow(user, title, description, category, PyInt(0), None, "pending", NullPayload)

\* what json.dumps of the JSONField of models.py:35 accepts: the field names
\* no encoder, and the default encoder refuses a datetime (TypeError)
JsonSerializable(payload) ==
    /\ \A k \in DOMAIN payload.rec : payload.rec[k].t # "datetime"
    /\ \A k \in DOMAIN payload.raw : payload.raw[k].t # "datetime"

\* task.save(): every column of the row is written from the instance, or
\* the exception raised while the values are prepared and nothing is written
Save(row, instance) ==
    IF JsonSerializable(instance.ai_suggestions)
    THEN [exc |-> "none", row |-> instance]
    ELSE [exc |-> "TypeError", row |-> row]

\* task_details as both views build it (views.py:50-54, 91-95)
DetailsOf(task) ==
    [k \in {"title", "description", "category"} |->
        CASE k = "title" -> task.title
          [] k = "description" -> task.description
          [] k = "category" -> task.category]

\* Task.objects.filter(user=..., status='pending').count()
PendingCount(row, user) ==
    IF row.exists /\ row.user = user /\ row.status = "pending" THEN 1 ELSE 0

\* a request: its position, its locals (task, daily_context_data,
\* current_task_load, ai_suggestions as ai), the replies _call_llm gave inside
\* get_task_suggestions, whether its task.save() after the suggestions has
\* run, and the status of its response
Request(kind, at, task, data, load, ai, saved, response) ==
    [kind |-> kind, pc |-> at, task |-> task, daily_context_data |-> data,
     current_task_load |-> load, ai |-> ai, summary_response |-> NullResp,
     suggestions |-> NullResp, saved |-> saved, response |-> response]

TheUser == "u1"

\* the bodies of the creation request: with and without description and category
CreateBodies ==
    { [title |-> PyStr(TxtTitle), description |-> PyStr(TxtDesc), category |-> PyStr(TxtCat)],
      [title |-> PyStr(TxtTitle), description |-> None, category |-> None] }

\* the bodies of the update request: a PUT that rewrites title, description,
\* category and status, and a PATCH of the status alone
UpdateBodies ==
    { [title |-> PyStr(TxtRent), description |-> PyStr(TxtNote),
       category |-> PyStr(TxtWork), status |-> "completed"],
      [status |-> "in_progress"] }

\* serializer.save(user=...) on an existing instance: the fields of the body
\* and the user are set on it (views.py:72)
ApplyBody(task, body, user) ==
    [task EXCEPT
       !.user = user,
       !.title = IF "title" \in DOMAIN body THEN body.title ELSE @,
       !.description = IF "description" \in DOMAIN body THEN body.description ELSE @,
       !.category = IF "category" \in DOMAIN body THEN body.category ELSE @,
       !.status = IF "status" \in DOMAIN body THEN body.status ELSE @]

ViewContexts == { <<>>, <<Entry(TxtEmail, TxtRent)>> }

ViewClocks == { <<2025, 12, 30, 23, 59, 59, 999999>> }

ViewSummarizeBackends ==
    { Backend("raise", TxtBoom, NullResp),
      Backend("json", <<>>, DictResp([k \in {"summary"} |-> PyStr(TxtBusy)])) }

ViewSuggestBackends ==
    { Backend("raise", TxtBoom, NullResp),
      Backend("json", <<>>,
              DictResp([k \in {"priority_score", "deadline"} |->
                          IF k = "priority_score" THEN PyInt(80)
                          ELSE PyStr(DlWellFormed)])),
      Backend("json", <<>>,
              DictResp([k \in {"priority_score", "deadline"} |->
                          IF k = "priority_score" THEN PyStr(TxtHigh)
                          ELSE PyInt(5)])) }

----------------------------------------------------------------------------
(* The pipeline alone: one call of get_task_suggestions *)

\* AITaskManagement(api_choice), then the entry of get_task_suggestions
\* (ai_module.py:17-23, 118-122)
Init ==
    /\ api_choice \in ApiChoices
    /\ client = InitializeLlmClient(api_choice)
    /\ task_details \in TaskDetailsSet
    /\ daily_context_data \in ContextSet
    /\ pc = "summarize"
    /\ summary_response = NullResp
    /\ context_summary_text = PyStr(NoContextText)
    /\ suggestions = NullResp
    /\ now = NoDatetime
    /\ result = NoResult
    /\ llm_calls = <<>>
    /\ db_task = NoRow
    /\ db_context = <<>>
    /\ req = <<>>
    /\ last_save = CreateId

\* ai_module.py:123 with no context entries: no call
NoContext ==
    /\ pc = "summarize"
    /\ ~HasContext(daily_context_data)
    /\ pc' = "suggest"
    /\ UNCHANGED viewVars
    /\ UNCHANGED <<api_choice, client, task_details, daily_context_data,
                   summary_response, context_summary_text, suggestions, now,
                   result, llm_calls>>

\* ai_module.py:123-131
SummarizeContext ==
    /\ pc = "summarize"
    /\ HasContext(daily_context_data)
    /\ \E b \in SummarizeBackends :
         LET r == CallLlm(api_choice, client, b)
             t == SummaryText(daily_context_data, r)
         IN  /\ summary_response' = r
             /\ llm_calls' = Append(llm_calls,
                    LlmCall("summarize", "gpt-3.5-turbo", 150,
                            PyStr(CombinedContext(daily_context_data)), b, r))
             /\ IF t.exc = "none"
                THEN /\ context_summary_text' = t.v
                     /\ pc' = "suggest"
                     /\ UNCHANGED result
                ELSE /\ pc' = "raised"
                     /\ result' = [exc |-> t.exc, rec |-> NoRecord, raw |-> EmptyDict]
                     /\ UNCHANGED context_summary_text
    /\ UNCHANGED viewVars
    /\ UNCHANGED <<api_choice, client, task_details, daily_context_data,
                   suggestions, now>>

\* ai_module.py:134-163
SuggestCall ==
    /\ pc = "suggest"
    /\ \E b \in SuggestBackends :
         LET r == CallLlm(api_choice, client, b)
         IN  /\ suggestions' = r
             /\ llm_calls' = Append(llm_calls,
                    LlmCall("suggest", "gpt-4o-mini", 400, context_summary_text,
                            b, r))
    /\ pc' = "post"
    /\ UNCHANGED viewVars
    /\ UNCHANGED <<api_choice, client, task_details, daily_context_data,
                   summary_response, context_summary_text, now, result>>

\* ai_module.py:165-203
PostProcessReply ==
    /\ pc = "post"
    /\ \E clock \in Clocks :
         /\ now' = clock
         /\ result' = PostProcess(suggestions, task_details, clock)
    /\ pc' = IF result'.exc = "none" THEN "done" ELSE "raised"
    /\ UNCHANGED viewVars
    /\ UNCHANGED <<api_choice, client, task_details, daily_context_data,
                   summary_response, context_summary_text, suggestions,
                   llm_calls>>

Next == NoContext \/ SummarizeContext \/ SuggestCall \/ PostProcessReply

Spec == Init /\ [][Next]_vars

----------------------------------------------------------------------------
(* The task lifecycle hooks: one creation request and the re-evaluation    *)
(* requests against the task it creates, interleaved at their reads and    *)
(* writes of the store.                                                    *)

\* ai_manager of views.py:14, an empty store, every request yet to start
InitViews ==
    /\ api_choice \in ApiChoices
    /\ client = InitializeLlmClient(api_choice)
    /\ task_details = EmptyDict
    /\ daily_context_data = <<>>
    /\ pc = "idle"
    /\ summary_response = NullResp
    /\ context_summary_text = None
    /\ suggestions = NullResp
    /\ now = NoDatetime
    /\ result = NoResult
    /\ llm_calls = <<>>
    /\ db_task = NoRow
    /\ db_context \in ViewContexts
    /\ req = [r \in RequestIds |->
                Request(IF r = CreateId THEN "create"
                        ELSE IF r = UpdateId THEN "update" ELSE "re_evaluate",
                        "start", NoRow, <<>>, 0, NoResult, FALSE, "")]
    /\ last_save = CreateId

\* the suggest step of both views: the call of get_task_suggestions
\* (views.py:49-58, 90-99); an exception ends the request
SuggestFor(r, next) ==
    \E b1 \in ViewSummarizeBackends, b2 \in ViewSuggestBackends, clock \in ViewClocks :
        LET data == req[r].daily_context_data
            r1 == IF HasContext(data) THEN CallLlm(api_choice, client, b1) ELSE NullResp
            summarized == ~HasContext(data) \/ SummaryText(data, r1).exc = "none"
            ai == GetTaskSuggestions(api_choice, client, DetailsOf(req[r].task),
                                     data, b1, b2, clock)
        IN  req' = [req EXCEPT ![r].ai = ai,
                               ![r].summary_response = r1,
                               ![r].suggestions =
                                   IF summarized THEN CallLlm(api_choice, client, b2)
                                   ELSE NullResp,
                               ![r].pc = IF ai.exc = "none" THEN next ELSE "failed",
                               ![r].response = IF ai.exc = "none" THEN @ ELSE "500"]

\* perform_create, views.py:37: serializer.save(user=self.request.user)
CreateInsert ==
    /\ req[CreateId].pc = "start"
    /\ \E body \in CreateBodies :
         LET task == NewTask(TheUser, body.title, body.description, body.category)
         IN  /\ db_task' = task
             /\ req' = [req EXCEPT ![CreateId].task = task, ![CreateId].pc = "gather"]
    /\ UNCHANGED <<api_choice, client, pipelineVars, db_context, last_save>>

\* perform_create, views.py:40-46
CreateGather ==
    /\ req[CreateId].pc = "gather"
    /\ req' = [req EXCEPT ![CreateId].daily_context_data = db_context,
                          ![CreateId].current_task_load = PendingCount(db_task, TheUser),
                          ![CreateId].pc = "suggest"]
    /\ UNCHANGED <<api_choice, client, pipelineVars, db_task, db_context, last_save>>

\* perform_create, views.py:49-58
CreateSuggest ==
    /\ req[CreateId].pc = "suggest"
    /\ SuggestFor(CreateId, "store")
    /\ UNCHANGED <<api_choice, client, pipelineVars, db_task, db_context, last_save>>

\* perform_create, views.py:61-64
CreateStore ==
    /\ req[CreateId].pc = "store"
    /\ LET ai == req[CreateId].ai
           task == [req[CreateId].task EXCEPT
                      !.priority_score = Get(ai.rec, "priority_score", PyInt(0)),
                      !.deadline = Get(ai.rec, "deadline", None),
                      !.ai_suggestions = ai]
           saved == Save(db_task, task)
       IN  /\ db_task' = saved.row
           /\ req' = [req EXCEPT ![CreateId].task = task,
                                 ![CreateId].saved = TRUE,
                                 ![CreateId].pc = IF saved.exc = "none" THEN "done" ELSE "failed",
                                 ![CreateId].response = IF saved.exc = "none" THEN "201" ELSE "500"]
    /\ last_save' = CreateId
    /\ UNCHANGED <<api_choice, client, pipelineVars, db_context>>

\* re_evaluate_ai, views.py:80 with no such task of the user: 404
ReevalNotFound(r) ==
    /\ req[r].pc = "start"
    /\ ~(db_task.exists /\ db_task.user = TheUser)
    /\ req' = [req EXCEPT ![r].pc = "done", ![r].response = "404"]
    /\ UNCHANGED <<api_choice, client, pipelineVars, db_task, db_context, last_save>>

\* re_evaluate_ai, views.py:80-87
ReevalRead(r) ==
    /\ req[r].pc = "start"
    /\ db_task.exists /\ db_task.user = TheUser
    /\ req' = [req EXCEPT ![r].task = db_task,
                          ![r].daily_context_data = db_context,
                          ![r].current_task_load = PendingCount(db_task, TheUser),
                          ![r].pc = "suggest"]
    /\ UNCHANGED <<api_choice, client, pipelineVars, db_task, db_context, last_save>>

\* re_evaluate_ai, views.py:90-99
ReevalSuggest(r) ==
    /\ req[r].pc = "suggest"
    /\ SuggestFor(r, "store")
    /\ UNCHANGED <<api_choice, client, pipelineVars, db_task, db_context, last_save>>

\* re_evaluate_ai, views.py:102-108
ReevalStore(r) ==
    /\ req[r].pc = "store"
    /\ LET ai == req[r].ai
           task == [req[r].task EXCEPT
                      !.priority_score = Get(ai.rec, "priority_score", @),
                      !.deadline = Get(ai.rec, "deadline", @),
                      !.ai_suggestions = ai]
           saved == Save(db_task, task)
       IN  /\ db_task' = saved.row
           /\ req' = [req EXCEPT ![r].task = task,
                                 ![r].saved = TRUE,
                                 ![r].pc = IF saved.exc = "none" THEN "done" ELSE "failed",
                                 ![r].response = IF saved.exc = "none" THEN "200" ELSE "500"]
    /\ last_save' = r
    /\ UNCHANGED <<api_choice, client, pipelineVars, db_context>>

\* the update request with no such task of the user: 404
UpdateNotFound ==
    /\ req[UpdateId].pc = "start"
    /\ ~(db_task.exists /\ db_task.user = TheUser)
    /\ req' = [req EXCEPT ![UpdateId].pc = "done", ![UpdateId].response = "404"]
    /\ UNCHANGED <<api_choice, client, pipelineVars, db_task, db_context, last_save>>

\* the update request reads the task it is about to change
UpdateRead ==
    /\ req[UpdateId].pc = "start"
    /\ db_task.exists /\ db_task.user = TheUser
    /\ req' = [req EXCEPT ![UpdateId].task = db_task, ![UpdateId].pc = "store"]
    /\ UNCHANGED <<api_choice, client, pipelineVars, db_task, db_context, last_save>>

\* perform_update, views.py:66-72: serializer.save(user=self.request.user)
PerformUpdate ==
    /\ req[UpdateId].pc = "store"
    /\ \E body \in UpdateBodies :
         LET task == ApplyBody(req[UpdateId].task, body, TheUser)
             saved == Save(db_task, task)
         IN  /\ db_task' = saved.row
             /\ req' = [req EXCEPT ![UpdateId].task = task,
                                   ![UpdateId].saved = TRUE,
                                   ![UpdateId].pc = IF saved.exc = "none" THEN "done" ELSE "failed",
                                   ![UpdateId].response = IF saved.exc = "none" THEN "200" ELSE "500"]
    /\ UNCHANGED <<api_choice, client, pipelineVars, db_context, last_save>>

NextViews ==
    \/ CreateInsert
    \/ CreateGather
    \/ CreateSuggest
    \/ CreateStore
    \/ \E r \in Reevals : ReevalNotFound(r)
    \/ \E r \in Reevals : ReevalRead(r)
    \/ \E r \in Reevals : ReevalSuggest(r)
    \/ \E r \in Reevals : ReevalStore(r)
    \/ UpdateNotFound
    \/ UpdateRead
    \/ PerformUpdate

SpecViews == InitViews /\ [][NextViews]_vars

----------------------------------------------------------------------------
(* Properties of get_task_suggestions *)

Returned == pc = "done"
LlmHas(k) == suggestions.t = "dict" /\ k \in DOMAIN suggestions.m
Out(k) == result.rec[k]

ExpectedDefaultDeadline ==
    LET d == AddDays(now, 3) IN PyDatetime(<<d[1], d[2], d[3], 17, 0, 0, 0>>)

\* the string is exactly YYYY-MM-DD HH:MM:SS: nineteen characters, digits
\* and separators in their places
StrictFormat(s) ==
    /\ Len(s) = 19
    /\ \A i \in 1..19 :
          CASE i \in {5, 8} -> s[i] = "-"
            [] i = 11 -> s[i] = " "
            [] i \in {14, 17} -> s[i] = ":"
            [] OTHER -> s[i] \in Digits

\* the fields of a string in the strict format, read by position
StrictFields(s) ==
    <<DigitsValue(SubSeq(s, 1, 4), 0), DigitsValue(SubSeq(s, 6, 7), 0),
      DigitsValue(SubSeq(s, 9, 10), 0), DigitsValue(SubSeq(s, 12, 13), 0),
      DigitsValue(SubSeq(s, 15, 16), 0), DigitsValue(SubSeq(s, 18, 19), 0), 0>>

RecordKeys ==
    {"priority_score", "deadline", "suggested_category", "enhanced_description",
     "recommendations"}

\* C3 as claimed: get_task_suggestions never raises, and what it returns
\* holds the five fields.
C3_NeverRaises ==
    /\ pc # "raised"
    /\ Returned => DOMAIN result.rec = RecordKeys

Outage ==
    /\ llm_calls # <<>>
    /\ \A i \in 1..Len(llm_calls) : llm_calls[i].backend = "raise"

Finished == pc \in {"done", "raised"}

\* C4: when the backend raises on every call, get_task_suggestions returns
\* priority_score 50, the task's own category and description, no
\* recommendations and the default deadline.
C4_TotalOutage ==
    (Outage /\ Finished) =>
        /\ Returned
        /\ Out("priority_score") = PyInt(50)
        /\ Out("suggested_category") =
              (IF "category" \in DOMAIN task_details
               THEN task_details["category"] ELSE PyStr(Uncategorized))
        /\ Out("enhanced_description") =
              (IF "description" \in DOMAIN task_details
               THEN task_details["description"] ELSE PyStr(<<>>))
        /\ Out("recommendations") = PyList(<<>>)
        /\ Out("deadline") = ExpectedDefaultDeadline

\* both calls were made, both raised, and the defaults came back
C4_Witness ==
    /\ Outage
    /\ Returned
    /\ Len(llm_calls) = 2
    /\ Out("priority_score") = PyInt(50)

\* C6: with no context entries the suggestion prompt embeds exactly "No
\* daily context available." and the suggest call is the only call made.
C6_NoContext ==
    (daily_context_data = <<>>) =>
        /\ Len(llm_calls) <= 1
        /\ \A i \in 1..Len(llm_calls) :
              /\ llm_calls[i].purpose = "suggest"
              /\ llm_calls[i].context = PyStr(NoContextText)
        /\ pc \in {"post", "done", "raised"} => Len(llm_calls) = 1

\* the suggest call was made with no context entries
C6_Witness ==
    /\ daily_context_data = <<>>
    /\ Returned
    /\ Len(llm_calls) = 1
    /\ llm_calls[1].purpose = "suggest"

\* the entries as lines "<source_type>: <content>", in input order, each
\* after the same label
ClaimedLines(label, data) ==
    Join([i \in 1..Len(data) |->
            label \o data[i].source_type \o <<":", " ">> \o data[i].content])

\* a reply with a usable summary: a dict whose "summary" is a non-empty str
UsableSummary(r) ==
    /\ r.t = "dict"
    /\ "summary" \in DOMAIN r.m
    /\ r.m["summary"].t = "str"
    /\ r.m["summary"].s # <<>>

\* C7 as claimed: with context entries, the summarize prompt holds the
\* lines "<source_type>: <content>" in input order (read here up to the
\* label "Source: " that may stand before each line); when the call fails
\* or its reply has no usable summary, the summary used downstream is the
\* first 200 characters of those lines and "..."; the summary is always a
\* text, so the summary step does not raise either.
C7_SummaryFallback ==
    (daily_context_data # <<>> /\ pc # "summarize") =>
        /\ pc # "raised" \/ Len(llm_calls) > 1
        /\ \E label \in {<<>>, SourcePrefix} :
              LET lines == ClaimedLines(label, daily_context_data)
              IN  /\ llm_calls[1].context = PyStr(lines)
                  /\ ~UsableSummary(summary_response) =>
                        context_summary_text =
                           PyStr(SubSeq(lines, 1, Min(200, Len(lines)))
                                 \o <<".", ".", ".">>)
        /\ context_summary_text.t = "str"

\* C8: recommendations of the record returned is the reply's value when
\* that is a list, and the empty list otherwise.
C8_Recommendations ==
    Returned =>
        /\ Out("recommendations").t = "list"
        /\ IF LlmHas("recommendations") /\ suggestions.m["recommendations"].t = "list"
           THEN Out("recommendations") = suggestions.m["recommendations"]
           ELSE Out("recommendations") = PyList(<<>>)

\* a reply whose recommendations is a string came back with the empty list
C8_Witness ==
    /\ Returned
    /\ LlmHas("recommendations")
    /\ suggestions.m["recommendations"] = PyStr(TxtDoItNow)
    /\ Out("recommendations") = PyList(<<>>)

\* C9 as amended: with the 'claude' adapter every _call_llm returns the
\* empty dict, the value an empty JSON object reply gives, with no error key.
C9_ClaudeEmptyResult ==
    (api_choice = "claude") =>
        \A i \in 1..Len(llm_calls) :
            /\ llm_calls[i].reply.t = "dict"
            /\ DOMAIN llm_calls[i].reply.m = {}

\* the 'claude' adapter was called for the summary and for the suggestions
C9_Witness ==
    /\ api_choice = "claude"
    /\ Len(llm_calls) = 2
    /\ Returned

\* C9 as claimed: with the 'claude' adapter every _call_llm returns a
\* failure value, told apart from an empty reply by its "error" key.
C9_AsClaimed ==
    (api_choice = "claude") =>
        \A i \in 1..Len(llm_calls) : "error" \in DOMAIN llm_calls[i].reply.m

----------------------------------------------------------------------------
(* Properties of the task lifecycle hooks *)

RequestOver(r) == req[r].pc \in {"done", "failed"}

\* C5 as claimed: the creation request does not abort, and the task is
\* stored with a priority_score in [1,100] and a deadline.
C5_CreatePersistsDefaults ==
    RequestOver(CreateId) =>
        /\ req[CreateId].response = "201"
        /\ db_task.exists
        /\ db_task.priority_score.t = "int"
        /\ db_task.priority_score.n \in 1..100
        /\ db_task.deadline.t = "datetime"

\* C10 as claimed: once the re-evaluation requests have run their saves, the
\* stored priority_score, deadline and payload are those of the record the
\* request that saved last computed.
C10_LastWriteWins ==
    (\A r \in Reevals : RequestOver(r) /\ req[r].saved) =>
        LET ai == req[last_save].ai
        IN  /\ last_save \in Reevals
            /\ db_task.priority_score = ai.rec["priority_score"]
            /\ db_task.deadline = ai.rec["deadline"]
            /\ DOMAIN db_task.ai_suggestions.rec = DOMAIN ai.rec
            /\ db_task.ai_suggestions = ai

\* the columns of a Task row a re-evaluation is not about
Frame(row) == <<row.title, row.description, row.category, row.status, row.user>>

\* an update request changed the row after request r read it
UpdatedSinceRead(r) == Frame(req[r].task) # Frame(db_task)

====
